---------------------------- MODULE Spec2Model ----------------------------
(***************************************************************************)
(* Model of packages/aws-cdk-lib/core/lib/stack-policy.ts: the stack       *)
(* policy document schema, the StackPolicy construct that holds a          *)
(* document, and its serialization by _toCloudFormation, which hands the   *)
(* document to capitalizePropertyNames (imported from ./util).             *)
(*                                                                         *)
(* JavaScript values are modelled as tagged records [t, v]; an object is   *)
(* an ordered sequence of <<key, value>> pairs (Object.keys order), a key  *)
(* is a sequence of characters so that the casing rule is computed         *)
(* character by character.  Objects live in a heap so that `this.document` *)
(* and `props.document` are the same object, as they are in the code.      *)
(***************************************************************************)
EXTENDS Integers, Sequences, FiniteSets, TLC

VARIABLES heap, props, node, results

vars == <<heap, props, node, results>>

(* ------------------------------ bounds -------------------------------- *)

\* Longest statement list of a document supplied by a caller.
MaxStatements == 2

\* Number of _toCloudFormation invocations followed on one node.
MaxCalls == 3

(* --------------------------- value domain ----------------------------- *)

Str(s)  == [t |-> "string",  v |-> s]
Num(n)  == [t |-> "number",  v |-> n]
Bool(b) == [t |-> "boolean", v |-> b]
Null      == [t |-> "null",      v |-> "null"]
Undefined == [t |-> "undefined", v |-> "undefined"]
Arr(elems) == [t |-> "array",  v |-> elems]
Obj(pairs) == [t |-> "object", v |-> pairs]

\* A thrown exception, as the value an invocation ends with.
TypeError == [t |-> "error", v |-> "TypeError"]

IsScalar(x) == x.t \in {"string", "number", "boolean", "null"}

(* ------------------------------- keys --------------------------------- *)

k_statement    == <<"s","t","a","t","e","m","e","n","t">>
k_effect       == <<"e","f","f","e","c","t">>
k_action       == <<"a","c","t","i","o","n">>
k_notAction    == <<"n","o","t","A","c","t","i","o","n">>
k_principal    == <<"p","r","i","n","c","i","p","a","l">>
k_resource     == <<"r","e","s","o","u","r","c","e">>
k_notResource  == <<"n","o","t","R","e","s","o","u","r","c","e">>
k_condition    == <<"c","o","n","d","i","t","i","o","n">>
k_stringEquals == <<"s","t","r","i","n","g","E","q","u","a","l","s">>
k_stringLike   == <<"s","t","r","i","n","g","L","i","k","e">>
k_resourceType == <<"r","e","s","o","u","r","c","e","T","y","p","e">>

(* ------------------------- the document schema ------------------------ *)

\* type Effect = 'Allow' | 'Deny'
Effect == {Str("Allow"), Str("Deny")}

\* type ActionValue = 'Update:Modify' | 'Update:Replace' | 'Update:Delete' | 'Update:*'
ActionValue == {Str("Update:Modify"), Str("Update:Replace"),
                Str("Update:Delete"), Str("Update:*")}

\* type Principal = '*'
Principal == Str("*")

\* interface ConditionResourceType { resourceType: string[] }
ConditionResourceType(types) == Obj(<< <<k_resourceType, Arr(types)>> >>)

\* interface StringEqualsCondition { stringEquals: ConditionResourceType }
StringEqualsCondition(types) ==
    Obj(<< <<k_stringEquals, ConditionResourceType(types)>> >>)

\* interface StringLikeCondition { stringLike: ConditionResourceType }
StringLikeCondition(types) ==
    Obj(<< <<k_stringLike, ConditionResourceType(types)>> >>)

\* The optional field `condition?`: left out, or a sequence holding its value
\* (which may be `undefined`, the other way of not setting the field).
NoCondition == << >>
WithCondition(c) == << <<k_condition, c>> >>

\* interface ActionResourceStatement
ActionResourceStatement(effect, action, resource, cond) ==
    Obj(<< <<k_effect, effect>>, <<k_action, action>>,
           <<k_principal, Principal>>, <<k_resource, resource>> >> \o cond)

\* interface ActionNotResourceStatement
ActionNotResourceStatement(effect, action, notResource, cond) ==
    Obj(<< <<k_effect, effect>>, <<k_action, action>>,
           <<k_principal, Principal>>, <<k_notResource, notResource>> >> \o cond)

\* interface NotActionResourceStatement
NotActionResourceStatement(effect, notAction, resource, cond) ==
    Obj(<< <<k_effect, effect>>, <<k_notAction, notAction>>,
           <<k_principal, Principal>>, <<k_resource, resource>> >> \o cond)

\* interface NotActionNotResourceStatement
NotActionNotResourceStatement(effect, notAction, notResource, cond) ==
    Obj(<< <<k_effect, effect>>, <<k_notAction, notAction>>,
           <<k_principal, Principal>>, <<k_notResource, notResource>> >> \o cond)

\* interface StackPolicyDocument { statement: StackPolicyStatement[] }
StackPolicyDocument(statements) == Obj(<< <<k_statement, Arr(statements)>> >>)

(* ---------------------- documents callers supply ---------------------- *)

\* Statements that conform to one of the four interfaces of
\* StackPolicyStatement (lines 190-194).
TypedStatements ==
    {ActionResourceStatement(e, Str("Update:Replace"), Str("MyBucket"), NoCondition) : e \in Effect}
    \cup {ActionNotResourceStatement(Str("Allow"), Str("Update:Replace"), Str("MyTable"), NoCondition),
          NotActionResourceStatement(Str("Deny"), Str("Update:Delete"), Str("MyBucket"), NoCondition),
          NotActionNotResourceStatement(Str("Allow"), Str("Update:Modify"), Str("MyTable"), NoCondition),
          ActionResourceStatement(Str("Deny"), Arr(<<Str("Update:Modify"), Str("Update:Delete")>>),
                                  Arr(<<Str("MyBucket"), Str("MyTable")>>), NoCondition),
          ActionResourceStatement(Str("Deny"), Str("Update:Replace"),
                                  Arr(<<Str("MyBucket")>>), NoCondition),
          NotActionResourceStatement(Str("Allow"), Str("Update:Delete"), Str("*"),
                                     WithCondition(Undefined)),
          ActionResourceStatement(Str("Allow"), Str("Update:*"), Str("*"),
              WithCondition(StringEqualsCondition(
                  <<Str("AWS::EC2::Instance"), Str("AWS::RDS::DBInstance")>>))),
          ActionNotResourceStatement(Str("Deny"), Str("Update:*"), Str("MyTable"),
              WithCondition(StringLikeCondition(
                  <<Str("AWS::EC2::*"), Str("AWS::RDS::*")>>)))}

\* The types are erased when the program runs and the constructor (lines
\* 227-230) checks nothing, so a caller can also hand over statements that
\* conform to none of the interfaces: both fields of a pair populated, an
\* effect outside Effect, leaves that are not strings.
UntypedStatements ==
    {Obj(<< <<k_effect, Str("Allow")>>, <<k_action, Str("Update:Modify")>>,
            <<k_notAction, Str("Update:Delete")>>, <<k_principal, Principal>>,
            <<k_resource, Str("MyBucket")>> >>),
     Obj(<< <<k_effect, Str("Deny")>>, <<k_action, Str("Update:*")>>,
            <<k_principal, Principal>>, <<k_resource, Str("MyBucket")>>,
            <<k_notResource, Str("MyTable")>> >>),
     ActionResourceStatement(Str("Maybe"), Str("Update:*"), Str("*"), NoCondition),
     ActionResourceStatement(Str("Allow"), Str("Update:*"),
                             Arr(<<Str("MyBucket"), Num(7), Bool(TRUE), Null>>),
                             WithCondition(Null))}

Statements == TypedStatements \cup UntypedStatements

SeqUpTo(S, n) == UNION {[1..k -> S] : k \in 0..n}

Documents == {StackPolicyDocument(s) : s \in SeqUpTo(Statements, MaxStatements)}

(* ------------------------ reading the structures ---------------------- *)

\* `key in obj`
Has(obj, key) == obj.t = "object" /\ \E i \in 1..Len(obj.v) : obj.v[i][1] = key

\* obj[key]: the value of a missing property reads as undefined.
Get(obj, key) ==
    IF Has(obj, key)
    THEN obj.v[CHOOSE i \in 1..Len(obj.v) : obj.v[i][1] = key][2]
    ELSE Undefined

\* The field is set to something other than undefined.
Populated(obj, key) == Get(obj, key).t # "undefined"

\* The elements of an array value, none for anything else.
Elems(x) == IF x.t = "array" THEN x.v ELSE << >>

\* Every key of every object of a value, at any depth.
RECURSIVE KeysOf(_)
KeysOf(x) ==
    IF x.t = "object"
    THEN UNION {{x.v[i][1]} \cup KeysOf(x.v[i][2]) : i \in 1..Len(x.v)}
    ELSE IF x.t = "array"
    THEN UNION {KeysOf(x.v[i]) : i \in 1..Len(x.v)}
    ELSE {}

\* Some object of the value, at any depth, has a key whose value is undefined.
RECURSIVE HasAbsentValue(_)
HasAbsentValue(x) ==
    IF x.t = "object"
    THEN \E i \in 1..Len(x.v) :
            x.v[i][2].t = "undefined" \/ HasAbsentValue(x.v[i][2])
    ELSE IF x.t = "array"
    THEN \E i \in 1..Len(x.v) : HasAbsentValue(x.v[i])
    ELSE FALSE

\* The scalar leaves of a value in depth-first order.
RECURSIVE Leaves(_)
RECURSIVE LeavesOfAll(_)
LeavesOfAll(values) ==
    IF values = << >> THEN << >>
    ELSE Leaves(Head(values)) \o LeavesOfAll(Tail(values))

Leaves(x) ==
    IF x.t = "object"
    THEN LeavesOfAll([i \in 1..Len(x.v) |-> x.v[i][2]])
    ELSE IF x.t = "array"
    THEN LeavesOfAll(x.v)
    ELSE IF IsScalar(x) THEN <<x>> ELSE << >>

\* The document the node holds, and the statements of a document.
Document == heap[node.document]
StatementsOf(d) == Elems(Get(d, k_statement))

(* ------------------- capitalizePropertyNames (./util) ----------------- *)

Lower == <<"a","b","c","d","e","f","g","h","i","j","k","l","m",
           "n","o","p","q","r","s","t","u","v","w","x","y","z">>
Upper == <<"A","B","C","D","E","F","G","H","I","J","K","L","M",
           "N","O","P","Q","R","S","T","U","V","W","X","Y","Z">>

\* String.prototype.toUpperCase on one character: a lower-case letter maps to
\* its upper-case letter, any other character to itself.
UpperOf == [c \in {Lower[i] : i \in 1..Len(Lower)} |->
               Upper[CHOOSE i \in 1..Len(Lower) : Lower[i] = c]]

UpperLetters == {Upper[i] : i \in 1..Len(Upper)}

IsUpper(c) == c \in UpperLetters

toUpperCase(c) == IF c \in DOMAIN UpperOf THEN UpperOf[c] ELSE c

\* The casing rule: the first character and every character that follows an
\* implicit word boundary (in a camel-case key, a character that starts a
\* word is the first one or an upper-case one) is upper-cased.
upperCamelCase(key) ==
    [i \in 1..Len(key) |->
        IF i = 1 \/ IsUpper(key[i]) THEN toUpperCase(key[i]) ELSE key[i]]

\* newObj[newKey] = value on an ordered mapping.
PutProperty(pairs, key, value) ==
    IF \E i \in 1..Len(pairs) : pairs[i][1] = key
    THEN [i \in 1..Len(pairs) |->
             IF pairs[i][1] = key THEN <<key, value>> ELSE pairs[i]]
    ELSE Append(pairs, <<key, value>>)

RECURSIVE capitalizePropertyNames(_, _)
RECURSIVE capitalizeProperties(_, _, _)

\* The new mapping of an object node, built key by key; a key whose value is
\* absent is dropped.
capitalizeProperties(construct, pairs, newObj) ==
    IF pairs = << >> THEN newObj
    ELSE LET key   == Head(pairs)[1]
             value == Head(pairs)[2]
         IN  capitalizeProperties(construct, Tail(pairs),
                 IF value.t = "undefined" THEN newObj
                 ELSE PutProperty(newObj, upperCamelCase(key),
                                  capitalizePropertyNames(construct, value)))

\* Depth-first walk: a new object with re-cased keys, a new array of the
\* transformed elements, a scalar (or absent) as it is.
capitalizePropertyNames(construct, obj) ==
    IF obj.t = "object"
    THEN Obj(capitalizeProperties(construct, obj.v, << >>))
    ELSE IF obj.t = "array"
    THEN Arr([i \in 1..Len(obj.v) |-> capitalizePropertyNames(construct, obj.v[i])])
    ELSE obj

(* ------------- faulty variants of _toCloudFormation ------------------- *)
(* Each is _toCloudFormation with one slip in it.                          *)

\* The document with F applied to each statement.
MapStatements(d, F(_)) ==
    StackPolicyDocument([i \in 1..Len(StatementsOf(d)) |-> F(StatementsOf(d)[i])])

\* Only the keys of the wrapper are re-cased (no recursion).
toCloudFormation_shallow(this, h) ==
    LET d == h[this.document]
    IN  [ret  |-> Obj([i \in 1..Len(d.v) |-> <<upperCamelCase(d.v[i][1]), d.v[i][2]>>]),
         heap |-> h]

\* An unset field is defaulted to null before the walk (`?? null`).
DefaultAbsent(s) ==
    Obj([i \in 1..Len(s.v) |->
            IF s.v[i][2].t = "undefined" THEN <<s.v[i][1], Null>> ELSE s.v[i]])

toCloudFormation_nullForAbsent(this, h) ==
    [ret  |-> capitalizePropertyNames(this, MapStatements(h[this.document], DefaultAbsent)),
     heap |-> h]

\* A bare resource string is promoted to a one-element array.
PromoteResource(s) ==
    Obj([i \in 1..Len(s.v) |->
            IF s.v[i][1] = k_resource /\ s.v[i][2].t = "string"
            THEN <<k_resource, Arr(<<s.v[i][2]>>)>> ELSE s.v[i]])

toCloudFormation_promote(this, h) ==
    [ret  |-> capitalizePropertyNames(this, MapStatements(h[this.document], PromoteResource)),
     heap |-> h]

\* The walk over the statement list starts at the second statement.
toCloudFormation_skipFirst(this, h) ==
    LET st == StatementsOf(h[this.document])
    IN  [ret  |-> capitalizePropertyNames(this,
                     StackPolicyDocument(IF st = << >> THEN st ELSE Tail(st))),
         heap |-> h]

\* null is taken for an object (typeof null === 'object') and its keys are
\* asked for, which throws.
toCloudFormation_throwOnNull(this, h) ==
    LET leaves == Leaves(h[this.document])
    IN  [ret  |-> IF \E i \in 1..Len(leaves) : leaves[i] = Null
                  THEN TypeError
                  ELSE capitalizePropertyNames(this, h[this.document]),
         heap |-> h]

\* The keys are re-cased in place, on the document object itself.
toCloudFormation_inPlace(this, h) ==
    LET out == capitalizePropertyNames(this, h[this.document])
    IN  [ret |-> out, heap |-> [h EXCEPT ![this.document] = out]]

\* The statement list is reversed in place (Array.prototype.reverse) on
\* every call.
Reverse(seq) == [i \in 1..Len(seq) |-> seq[Len(seq) + 1 - i]]

toCloudFormation_reverseInPlace(this, h) ==
    LET d == StackPolicyDocument(Reverse(StatementsOf(h[this.document])))
    IN  [ret |-> capitalizePropertyNames(this, d),
         heap |-> [h EXCEPT ![this.document] = d]]

\* The document is returned as it is, without the call to
\* capitalizePropertyNames.
toCloudFormation_identity(this, h) ==
    [ret |-> h[this.document], heap |-> h]

\* Only the five documented elements of a statement are serialized:
\* Effect, Action, Principal, Resource and Condition.
FiveElements(s) ==
    SelectSeq(s.v, LAMBDA p : p[1] \in {k_effect, k_action, k_principal,
                                        k_resource, k_condition})

OnlyFiveElements(s) == Obj(FiveElements(s))

toCloudFormation_fiveElements(this, h) ==
    [ret  |-> capitalizePropertyNames(this, MapStatements(h[this.document], OnlyFiveElements)),
     heap |-> h]

(* --------------------------- class StackPolicy ------------------------ *)

\* The address of the document object the caller built.
DocAddr == "document"

NoNode == [constructed |-> FALSE, document |-> "none"]

\* constructor(scope, id, props): this.document = props.document
StackPolicy(p) == [constructed |-> TRUE, document |-> p.document]

\* _toCloudFormation(): return capitalizePropertyNames(this, this.document)
\* The value returned, and the heap the call leaves behind.
_toCloudFormation(this, h) ==
    [ret |-> capitalizePropertyNames(this, h[this.document]), heap |-> h]

(* ------------------------------ behaviour ----------------------------- *)

\* The caller has built a document and holds it in props.
Init ==
    /\ heap \in {[a \in {DocAddr} |-> d] : d \in Documents}
    /\ props = [document |-> DocAddr]
    /\ node = NoNode
    /\ results = << >>

\* new StackPolicy(scope, id, props)
Construct ==
    /\ ~node.constructed
    /\ node' = StackPolicy(props)
    /\ UNCHANGED <<heap, props, results>>

\* One invocation of node._toCloudFormation(); results records what each
\* invocation returned.
ToCloudFormation ==
    /\ node.constructed
    /\ Len(results) < MaxCalls
    /\ LET call == _toCloudFormation(node, heap)
       IN  /\ results' = Append(results, call.ret)
           /\ heap' = call.heap
    /\ UNCHANGED <<props, node>>

Next == Construct \/ ToCloudFormation

Spec == Init /\ [][Next]_vars

(* --------------------- the wire format, written out ------------------- *)

\* The wire format's key for each key of the schema, written out.
K_Statement    == <<"S","t","a","t","e","m","e","n","t">>
K_Effect       == <<"E","f","f","e","c","t">>
K_Action       == <<"A","c","t","i","o","n">>
K_NotAction    == <<"N","o","t","A","c","t","i","o","n">>
K_Principal    == <<"P","r","i","n","c","i","p","a","l">>
K_Resource     == <<"R","e","s","o","u","r","c","e">>
K_NotResource  == <<"N","o","t","R","e","s","o","u","r","c","e">>
K_Condition    == <<"C","o","n","d","i","t","i","o","n">>
K_StringEquals == <<"S","t","r","i","n","g","E","q","u","a","l","s">>
K_StringLike   == <<"S","t","r","i","n","g","L","i","k","e">>
K_ResourceType == <<"R","e","s","o","u","r","c","e","T","y","p","e">>

CamelKeys == {k_statement, k_effect, k_action, k_notAction, k_principal,
              k_resource, k_notResource, k_condition, k_stringEquals,
              k_stringLike, k_resourceType}

PascalKeys == {K_Statement, K_Effect, K_Action, K_NotAction, K_Principal,
               K_Resource, K_NotResource, K_Condition, K_StringEquals,
               K_StringLike, K_ResourceType}

WireKey(k) ==
    CASE k = k_statement    -> K_Statement
      [] k = k_effect       -> K_Effect
      [] k = k_action       -> K_Action
      [] k = k_notAction    -> K_NotAction
      [] k = k_principal    -> K_Principal
      [] k = k_resource     -> K_Resource
      [] k = k_notResource  -> K_NotResource
      [] k = k_condition    -> K_Condition
      [] k = k_stringEquals -> K_StringEquals
      [] k = k_stringLike   -> K_StringLike
      [] k = k_resourceType -> K_ResourceType

\* The statements of a serialized document.
WireStatementsOf(r) == Elems(Get(r, K_Statement))

\* `out` is `in` with every populated key replaced by its wire key, at every
\* depth: the same keys (renamed), the same arrays, the same leaves.
RECURSIVE Rekeyed(_, _)
Rekeyed(in, out) ==
    IF in.t = "object"
    THEN LET kept == {i \in 1..Len(in.v) : in.v[i][2].t # "undefined"}
         IN  /\ out.t = "object"
             /\ Len(out.v) = Cardinality(kept)
             /\ \A i \in kept :
                   /\ in.v[i][1] \in CamelKeys
                   /\ Has(out, WireKey(in.v[i][1]))
                   /\ Rekeyed(in.v[i][2], Get(out, WireKey(in.v[i][1])))
    ELSE IF in.t = "array"
    THEN /\ out.t = "array"
         /\ Len(out.v) = Len(in.v)
         /\ \A i \in 1..Len(in.v) : Rekeyed(in.v[i], out.v[i])
    ELSE out = in

(* -------------------------------- C1 ---------------------------------- *)

\* C1: every value _toCloudFormation returns is the document with each key,
\* at every depth (wrapper, statement, condition, condition body), replaced
\* by its upper-camel-case form and the key's value transformed the same
\* way; no lower-camel-case key remains anywhere in the output.
C1_KeysUpperCamel ==
    \A k \in 1..Len(results) :
        /\ Rekeyed(Document, results[k])
        /\ KeysOf(results[k]) \subseteq PascalKeys
        /\ KeysOf(results[k]) \cap CamelKeys = {}

\* A serialized document with a condition: keys at all four depths.
C1_Witness ==
    /\ Len(results) >= 1
    /\ \E i \in 1..Len(StatementsOf(Document)) :
          /\ Populated(Get(StatementsOf(Document)[i], k_condition), k_stringLike)
          /\ Has(Get(Get(WireStatementsOf(results[1])[i], K_Condition),
                     K_StringLike), K_ResourceType)
    /\ \E i \in 1..Len(StatementsOf(Document)) :
          Populated(StatementsOf(Document)[i], k_notResource)

(* -------------------------------- C2 ---------------------------------- *)

\* C2: a statement whose condition is absent (not set, or set to undefined)
\* is serialized without any Condition key; no output holds a key whose
\* value is undefined, and no key is emitted (with null or anything else)
\* for a field the statement does not populate.
C2_AbsentDropped ==
    \A k \in 1..Len(results) :
        /\ ~HasAbsentValue(results[k])
        /\ Len(WireStatementsOf(results[k])) = Len(StatementsOf(Document))
        /\ \A i \in 1..Len(StatementsOf(Document)) :
              \A key \in CamelKeys :
                 ~Populated(StatementsOf(Document)[i], key)
                    => /\ ~Has(WireStatementsOf(results[k])[i], WireKey(key))
                       /\ ~Has(WireStatementsOf(results[k])[i], key)

\* Serialized: one statement with condition set to undefined, one without
\* the field.
C2_Witness ==
    /\ Len(results) >= 1
    /\ \E i \in 1..Len(StatementsOf(Document)) :
          /\ Has(StatementsOf(Document)[i], k_condition)
          /\ ~Populated(StatementsOf(Document)[i], k_condition)
    /\ \E i \in 1..Len(StatementsOf(Document)) :
          ~Has(StatementsOf(Document)[i], k_condition)

(* -------------------------------- C3 ---------------------------------- *)

\* C3: a resource that is a single string is serialized as that string; a
\* resource that is an array of N strings (N = 1 included) is serialized as
\* an array of N elements, the same ones in the same order.
C3_ResourceShape ==
    \A k \in 1..Len(results) :
        /\ Len(WireStatementsOf(results[k])) = Len(StatementsOf(Document))
        /\ \A i \in 1..Len(StatementsOf(Document)) :
              LET resource == Get(StatementsOf(Document)[i], k_resource)
                  Resource == Get(WireStatementsOf(results[k])[i], K_Resource)
              IN  /\ resource.t = "string" => Resource = resource
                  /\ resource.t = "array" =>
                        /\ Resource.t = "array"
                        /\ Len(Resource.v) = Len(resource.v)
                        /\ \A j \in 1..Len(resource.v) : Resource.v[j] = resource.v[j]

\* Serialized: a statement with a one-element resource array next to one
\* with a bare string.
C3_Witness ==
    /\ Len(results) >= 1
    /\ \E i \in 1..Len(StatementsOf(Document)) :
          LET resource == Get(StatementsOf(Document)[i], k_resource)
          IN  resource.t = "array" /\ Len(resource.v) = 1
    /\ \E i \in 1..Len(StatementsOf(Document)) :
          Get(StatementsOf(Document)[i], k_resource).t = "string"

(* -------------------------------- C4 ---------------------------------- *)

\* The i-th output statement is the i-th statement serialized: the same
\* leaves in the same order, and each of its arrays (an action list, a
\* resourceType list) of the same length with the same elements in order.
SameArray(in, out) ==
    in.t = "array" =>
        /\ out.t = "array"
        /\ Len(out.v) = Len(in.v)
        /\ \A j \in 1..Len(in.v) : out.v[j] = in.v[j]

ResourceTypes(cond, variant, type) == Get(Get(cond, variant), type)

\* C4: every array of the document is serialized to an array of the same
\* length whose i-th element is the transform of the i-th element: the
\* output has as many statements as the document, in the same order, and
\* nothing is dropped, duplicated or reordered.
C4_ArraysPreserved ==
    \A k \in 1..Len(results) :
        /\ Get(results[k], K_Statement).t = "array"
        /\ Len(WireStatementsOf(results[k])) = Len(StatementsOf(Document))
        /\ \A i \in 1..Len(StatementsOf(Document)) :
              LET in  == StatementsOf(Document)[i]
                  out == WireStatementsOf(results[k])[i]
              IN  /\ Leaves(out) = Leaves(in)
                  /\ SameArray(Get(in, k_action), Get(out, K_Action))
                  /\ SameArray(
                        ResourceTypes(Get(in, k_condition), k_stringEquals, k_resourceType),
                        ResourceTypes(Get(out, K_Condition), K_StringEquals, K_ResourceType))
                  /\ SameArray(
                        ResourceTypes(Get(in, k_condition), k_stringLike, k_resourceType),
                        ResourceTypes(Get(out, K_Condition), K_StringLike, K_ResourceType))

\* Serialized: two different statements, one with an action list of two.
C4_Witness ==
    /\ Len(results) >= 1
    /\ Len(StatementsOf(Document)) >= 2
    /\ StatementsOf(Document)[1] # StatementsOf(Document)[2]
    /\ Leaves(StatementsOf(Document)[1]) # Leaves(StatementsOf(Document)[2])
    /\ \E i \in 1..Len(StatementsOf(Document)) :
          LET action == Get(StatementsOf(Document)[i], k_action)
          IN  action.t = "array" /\ Len(action.v) = 2

(* -------------------------------- C5 ---------------------------------- *)

\* C5: every invocation completes without an error, and the scalar leaves of
\* its output (strings, numbers, booleans, null) are those of the document,
\* unchanged and in the same positions; string values are never re-cased.
C5_ScalarsUnchanged ==
    \A k \in 1..Len(results) :
        /\ results[k].t # "error"
        /\ Leaves(results[k]) = Leaves(Document)

\* Serialized: a document with a number, a boolean and a null leaf.
C5_Witness ==
    /\ Len(results) >= 1
    /\ LET leaves == Leaves(Document)
       IN  \A kind \in {"string", "number", "boolean", "null"} :
              \E i \in 1..Len(leaves) : leaves[i].t = kind

(* -------------------------------- C6 ---------------------------------- *)

\* C6: the node's document is the caller's document object, and neither
\* construction nor any invocation of _toCloudFormation changes it; what an
\* invocation returns is a structure other than the document.
C6_DocumentUnchanged ==
    /\ [][/\ heap' = heap
          /\ props' = props
          /\ node.constructed => node' = node
          /\ node'.constructed => node'.document = props'.document]_vars
    /\ [](\A k \in 1..Len(results) : results[k] # Document)

\* Two invocations have been made on a node holding a document with
\* statements.
C6_Witness ==
    /\ node.constructed
    /\ Len(results) >= 2
    /\ Len(StatementsOf(Document)) >= 1

(* -------------------------------- C7 ---------------------------------- *)

\* C7: the k-th invocation of _toCloudFormation on a node returns what the
\* first one returned, for every k.
C7_SameOutputEveryCall ==
    \A k \in 1..Len(results) : results[k] = results[1]

\* Three invocations on a document of two different statements.
C7_Witness ==
    /\ Len(results) >= 3
    /\ Len(StatementsOf(Document)) >= 2
    /\ StatementsOf(Document)[1] # StatementsOf(Document)[2]

(* -------------------------------- C8 ---------------------------------- *)

\* C8: serializing an output again changes nothing: its keys, single-word
\* (Effect) or multi-word (ResourceType, NotAction), are already in
\* upper-camel-case and stay as they are.
C8_Idempotent ==
    \A k \in 1..Len(results) :
        LET again == capitalizePropertyNames(node, results[k])
        IN  again = results[k] /\ KeysOf(again) = KeysOf(results[k])

\* An output with the multi-word keys NotAction and ResourceType.
C8_Witness ==
    /\ Len(results) >= 1
    /\ {K_NotAction, K_ResourceType, K_Effect} \subseteq KeysOf(results[1])

(* -------------------------------- C9 ---------------------------------- *)

PairKeys == {k_action, k_notAction, k_resource, k_notResource}

ExactlyOne(a, b) == (a /\ ~b) \/ (b /\ ~a)

\* C9 as stated: no statement of a document held by a node, and none of an
\* output, populates both action and notAction or both resource and
\* notResource; exactly one of each pair is present.
C9_PairsExclusive ==
    /\ node.constructed =>
          \A i \in 1..Len(StatementsOf(Document)) :
              LET st == StatementsOf(Document)[i]
              IN  /\ ExactlyOne(Populated(st, k_action), Populated(st, k_notAction))
                  /\ ExactlyOne(Populated(st, k_resource), Populated(st, k_notResource))
    /\ \A k \in 1..Len(results) :
          \A i \in 1..Len(WireStatementsOf(results[k])) :
              LET st == WireStatementsOf(results[k])[i]
              IN  /\ ExactlyOne(Has(st, K_Action), Has(st, K_NotAction))
                  /\ ExactlyOne(Has(st, K_Resource), Has(st, K_NotResource))

\* C9, amended: the constructor accepts whatever statements it is given, and
\* serialization keeps each field of the two pairs exactly as populated: an
\* output statement has Action, NotAction, Resource or NotResource exactly
\* when its source statement populates action, notAction, resource or
\* notResource.  So a statement that populates one field of each pair is
\* serialized with one of each pair, and one that populates both with both.
C9_PairsPreserved ==
    \A k \in 1..Len(results) :
        /\ Len(WireStatementsOf(results[k])) = Len(StatementsOf(Document))
        /\ \A i \in 1..Len(StatementsOf(Document)) :
              \A key \in PairKeys :
                 Has(WireStatementsOf(results[k])[i], WireKey(key))
                    <=> Populated(StatementsOf(Document)[i], key)

\* Serialized: a statement of the NotActionNotResource shape, and one that
\* populates both action and notAction.
C9_Witness ==
    /\ Len(results) >= 1
    /\ \E i \in 1..Len(StatementsOf(Document)) :
          LET st == StatementsOf(Document)[i]
          IN  /\ Populated(st, k_notAction) /\ Populated(st, k_notResource)
              /\ ~Populated(st, k_action) /\ ~Populated(st, k_resource)
    /\ \E i \in 1..Len(StatementsOf(Document)) :
          LET st == StatementsOf(Document)[i]
          IN  /\ Populated(st, k_action) /\ Populated(st, k_notAction)
              /\ Has(WireStatementsOf(results[1])[i], K_Action)
              /\ Has(WireStatementsOf(results[1])[i], K_NotAction)

(* -------------------------------- C10 --------------------------------- *)

\* C10: a statement whose effect is neither 'Allow' nor 'Deny' is rejected
\* at construction: no node holds a document with such a statement, and no
\* output has an Effect other than 'Allow' or 'Deny'.
C10_InvalidEffectRejected ==
    /\ node.constructed =>
          \A i \in 1..Len(StatementsOf(Document)) :
              Get(StatementsOf(Document)[i], k_effect) \in Effect
    /\ \A k \in 1..Len(results) :
          \A i \in 1..Len(WireStatementsOf(results[k])) :
              Get(WireStatementsOf(results[k])[i], K_Effect) \in Effect

=============================================================================
